---- MODULE Spec2Model ----
(***************************************************************************)
(* Model of gitingest-full-prod/python/embed_all_files.py: the corpus      *)
(* reader (read_files), the chunker (chunk_text) and the ingestion script  *)
(* (main), which builds the entries, embeds them and dumps them to the     *)
(* output file.                                                            *)
(*                                                                         *)
(* A text is a sequence of one-character strings; Python's str.split(),    *)
(* " ".join() and slicing are modelled on that representation.  Corpus     *)
(* ids, paths and entry ids are TLA+ strings, concatenated as the f-string *)
(* of main concatenates them.                                              *)
(***************************************************************************)
EXTENDS Integers, Sequences, FiniteSets, TLC

VARIABLES
    call,      \* one activation of chunk_text: arguments, locals, position
    fs,        \* the filesystem below the two roots the script is run on
    store,     \* the content of the output file <out.json>: a sequence of entries
    last,      \* what the most recent run of main read, printed and ended with
    wrote,     \* the inputs of the run that wrote the store, and whether the
               \* run that wrote it before had the same inputs
    fsops,     \* number of filesystem changes so far
    pair       \* two (corpus id, path, chunk index) triples and their entry ids

vars == <<call, fs, store, last, wrote, fsops, pair>>

-----------------------------------------------------------------------------
(* Bounds of the model *)

MaxTextLen == 6     \* longest text, in characters, given to chunk_text
MaxParam == 3       \* largest max_words / overlap given to chunk_text
MaxChunks == 6      \* cut-off of a chunk_text loop that does not end by itself
MaxFsOps == 1       \* filesystem changes between the runs of main
MaxIndex == 1       \* largest chunk index given to the entry-id builder

(* Program constants: the defaults of chunk_text *)
DefaultMaxWords == 600
DefaultOverlap == 100

-----------------------------------------------------------------------------
(* Texts *)

Min(a, b) == IF a < b THEN a ELSE b
Max(a, b) == IF a > b THEN a ELSE b

Whitespace == {" ", "\n", "\t"}
Alphabet == {"a", "b", " ", "\n"}

IsSpace(c) == c \in Whitespace

\* "one two three four five", the text of the end-to-end scenario
ExampleText ==
    <<"o","n","e"," ","t","w","o"," ","t","h","r","e","e"," ",
      "f","o","u","r"," ","f","i","v","e">>

BoundedTexts == UNION {[1..n -> Alphabet] : n \in 0..MaxTextLen}

\* str.split(): the maximal runs of non-whitespace characters, in order
Split(text) ==
    LET n == Len(text)
        idx == [k \in 1..n |-> k]
        IsStart(k) == ~IsSpace(text[k]) /\ (k = 1 \/ IsSpace(text[k-1]))
        IsEnd(k) == ~IsSpace(text[k]) /\ (k = n \/ IsSpace(text[k+1]))
        starts == SelectSeq(idx, IsStart)
        ends == SelectSeq(idx, IsEnd)
    IN  [k \in 1..Len(starts) |-> SubSeq(text, starts[k], ends[k])]

\* " ".join(ws)
RECURSIVE Join(_)
Join(ws) ==
    IF Len(ws) = 0 THEN <<>>
    ELSE IF Len(ws) = 1 THEN ws[1]
    ELSE LET h == Len(ws) \div 2
         IN  Join(SubSeq(ws, 1, h)) \o <<" ">> \o Join(SubSeq(ws, h+1, Len(ws)))

\* Python's s[lo:hi]: negative bounds count from the end, all bounds are clamped
PySlice(s, lo, hi) ==
    LET n == Len(s)
        Norm(x) == IF x < 0 THEN Max(x + n, 0) ELSE Min(x, n)
    IN  SubSeq(s, Norm(lo) + 1, Norm(hi))

-----------------------------------------------------------------------------
(* chunk_text *)

\* line 21: the text is returned whole
IsShort(words, max_words) == Len(words) <= max_words

\* (mutant of SingleChunk: the words joined again instead of the text itself)
SingleChunkJoined(text, words) == <<Join(words)>>

\* line 21: the list returned for a short text
SingleChunk(text, words) == <<text>>

\* line 23: the loop condition
LoopCond(i, words) == i < Len(words)

\* line 24: the chunk appended at position i
Window(words, i, max_words) == Join(PySlice(words, i, i + max_words))

\* (mutant of Advance: the overlap is forgotten)
AdvanceNoOverlap(i, max_words, overlap) == i + max_words

\* line 25: the next position
Advance(i, max_words, overlap) == i + max_words - overlap

\* The loop of lines 23-25, run to its end (it ends when the step is positive)
RECURSIVE ChunkLoop(_, _, _, _, _)
ChunkLoop(words, max_words, overlap, i, chunks) ==
    IF LoopCond(i, words)
    THEN ChunkLoop(words, max_words, overlap, Advance(i, max_words, overlap),
                   Append(chunks, Window(words, i, max_words)))
    ELSE chunks

\* chunk_text(text, max_words, overlap), for a positive step
ChunkText(text, max_words, overlap) ==
    LET words == Split(text)
    IN  IF IsShort(words, max_words) THEN SingleChunk(text, words)
        ELSE ChunkLoop(words, max_words, overlap, 0, <<>>)

ChunkInputs == BoundedTexts \cup {ExampleText}

NoCall == [pc |-> "none"]

\* chunk_text is entered with its arguments bound
ChunkInit ==
    \E t \in ChunkInputs, m \in 0..MaxParam, o \in 0..MaxParam :
        call = [pc |-> "entry", text |-> t, max_words |-> m, overlap |-> o,
                words |-> <<>>, i |-> 0, chunks |-> <<>>]

\* lines 20-22: split; return the text whole, or start the loop
ChunkEnter ==
    /\ call.pc = "entry"
    /\ LET words == Split(call.text)
       IN  call' = IF IsShort(words, call.max_words)
                   THEN [call EXCEPT !.words = words,
                                     !.chunks = SingleChunk(call.text, words),
                                     !.pc = "returned"]
                   ELSE [call EXCEPT !.words = words, !.chunks = <<>>, !.i = 0,
                                     !.pc = "loop"]
    /\ UNCHANGED <<fs, store, last, wrote, fsops, pair>>

\* lines 23-25: one iteration of the loop
ChunkIterate ==
    /\ call.pc = "loop"
    /\ LoopCond(call.i, call.words)
    /\ Len(call.chunks) < MaxChunks
    /\ call' = [call EXCEPT
                  !.chunks = Append(@, Window(call.words, call.i, call.max_words)),
                  !.i = Advance(@, call.max_words, call.overlap)]
    /\ UNCHANGED <<fs, store, last, wrote, fsops, pair>>

\* lines 23, 26: the loop condition fails and the chunks are returned
ChunkReturn ==
    /\ call.pc = "loop"
    /\ ~LoopCond(call.i, call.words)
    /\ call' = [call EXCEPT !.pc = "returned"]
    /\ UNCHANGED <<fs, store, last, wrote, fsops, pair>>

-----------------------------------------------------------------------------
(* The filesystem *)

DirRoot == "proj"                \* a root that is a directory
FileRoot == "docs/notes.txt"     \* a root that is a single file
Roots == {DirRoot, FileRoot}
Out == "out.json"                \* the output file, outside both roots

DirPaths == {"a.py", "sub/b.md"} \* relative paths of the files below DirRoot
TextKeys == {"empty", "short", "long"}

\* The content of a file, by key.  "long" has one word more than max_words.
Content(key) ==
    CASE key = "empty" -> <<>>
      [] key = "short" -> <<" ", "a", " ", " ", "b", "\n">>
      [] key = "long"  -> [k \in 1..(2 * DefaultMaxWords + 1) |->
                              IF k % 2 = 1 THEN "a" ELSE " "]

\* A file is absent, present but unreadable, or readable with a content
FileStates == [exists : {TRUE}, readable : {TRUE}, text : TextKeys]
                \cup {[exists |-> TRUE, readable |-> FALSE, text |-> "empty"],
                      [exists |-> FALSE, readable |-> FALSE, text |-> "empty"]}

DirOrders == {<<"a.py", "sub/b.md">>, <<"sub/b.md", "a.py">>}

\* Path(root).name
Name(root) == IF root = FileRoot THEN "notes.txt" ELSE root

\* Path(root).is_file()
IsFile(f, root) == root = FileRoot /\ f.file.exists

\* f.read_text(errors='ignore'): the content, or an exception
CanRead(file) == file.exists /\ file.readable

-----------------------------------------------------------------------------
(* read_files *)

\* lines 15-16: the pair appended for one file below the directory
DirItem(f, path) ==
    [path |-> path,
     text |-> IF CanRead(f.dir[path]) THEN Content(f.dir[path].text) ELSE <<>>]

\* lines 12-17: the walk of a directory, in the order rglob yields the files
WalkDir(f) ==
    LET listed == SelectSeq(f.order, LAMBDA p : f.dir[p].exists)
    IN  [k \in 1..Len(listed) |-> DirItem(f, listed[k])]

\* read_files(root): the items returned, or raised when line 11 throws
ReadFiles(f, root) ==
    IF IsFile(f, root)
    THEN IF CanRead(f.file)
         THEN [raised |-> FALSE,
               items |-> <<[path |-> Name(root), text |-> Content(f.file.text)]>>]
         ELSE [raised |-> TRUE, items |-> <<>>]
    ELSE [raised |-> FALSE,
          items |-> IF root = DirRoot THEN WalkDir(f) ELSE <<>>]

-----------------------------------------------------------------------------
(* main *)

DefaultRepo == "repo"
Repos == {"alpha"}                 \* corpus ids given as the third argument

\* line 37: f"{repo}::{fname}::chunk{i}"
EntryId(repo, fname, i) == repo \o "::" \o fname \o "::chunk" \o ToString(i)

\* lines 35-40: the entries of one file, chunk indices from 0 (txt or "" is
\* txt: read_files yields strings only)
FileEntries(repo, item) ==
    LET chunks == ChunkText(item.text, DefaultMaxWords, DefaultOverlap)
    IN  [k \in 1..Len(chunks) |->
            [id |-> EntryId(repo, item.path, k - 1),
             text |-> chunks[k],
             meta |-> [repo |-> repo, path |-> item.path, chunk |-> k - 1]]]

\* lines 33-40: the entries of all files, in reading order
RECURSIVE BuildEntries(_, _)
BuildEntries(repo, items) ==
    IF Len(items) = 0 THEN <<>>
    ELSE FileEntries(repo, Head(items)) \o BuildEntries(repo, Tail(items))

\* The embedding capability: one vector per text, a function of the text alone
Embed(text) ==
    <<Len(text), Cardinality({k \in DOMAIN text : IsSpace(text[k])})>>

\* line 42: MODEL.encode(texts)
Encode(texts) == [k \in 1..Len(texts) |-> Embed(texts[k])]

\* (mutant of AttachEmbeddings: every entry gets the first vector)
AttachFirstEmbedding(entries, embs) ==
    [k \in 1..Len(entries) |->
        [id |-> entries[k].id, text |-> entries[k].text,
         meta |-> entries[k].meta, embedding |-> embs[1]]]

\* line 43: entry i gets vector i
AttachEmbeddings(entries, embs) ==
    [k \in 1..Len(entries) |->
        [id |-> entries[k].id, text |-> entries[k].text,
         meta |-> entries[k].meta, embedding |-> embs[k]]]

\* (mutant of Dump: the new entries are added to what the file held)
DumpAppend(old, entries) == old \o entries

\* line 44: open(out, "w") and json.dump: the file holds exactly the new entries
Dump(old, entries) == entries

ArgVs == {<<DirRoot>>}
            \cup {<<r, Out>> : r \in Roots}
            \cup {<<r, Out, c>> : r \in Roots, c \in Repos}

NoRead == [raised |-> FALSE, items |-> <<>>]

Ended(outcome, code, lines, root, called, rd) ==
    [outcome |-> outcome, exit |-> code, stdout |-> lines, root |-> root,
     called |-> called, read |-> rd, fs |-> fs]

\* One run of the script with sys.argv[1:] = argv.  The embedding model is an
\* external capability: loading it (line 6) and calling it (line 42) each
\* succeed or raise.
Main(argv) ==
    /\ UNCHANGED <<call, fs, fsops, pair>>
    /\ \E loaded \in BOOLEAN :
       IF ~loaded
       THEN \* line 6 raises while the module is loaded
            /\ last' = Ended("ModelUnavailable", 1, <<>>, "", FALSE, NoRead)
            /\ UNCHANGED <<store, wrote>>
       ELSE IF Len(argv) + 1 < 3
       THEN \* lines 29-30
            /\ last' = Ended("usage", 1, <<[kind |-> "usage", n |-> 0]>>, "",
                             FALSE, NoRead)
            /\ UNCHANGED <<store, wrote>>
       ELSE \* lines 31-45; each local is bound to the value the code computes
            \E root \in {argv[1]},
               repo \in {IF Len(argv) + 1 > 3 THEN argv[3] ELSE DefaultRepo} :
            \E rd \in {ReadFiles(fs, root)} :
            \E entries \in {BuildEntries(repo, rd.items)} :
            \E texts \in {[k \in 1..Len(entries) |-> entries[k].text]} :
            \E encoded \in BOOLEAN :
                IF rd.raised
                THEN \* line 11 raises, nothing is caught
                     /\ last' = Ended("ReadError", 1, <<>>, root, TRUE, rd)
                     /\ UNCHANGED <<store, wrote>>
                ELSE IF ~encoded
                THEN \* line 42 raises, nothing is caught
                     /\ last' = Ended("ModelUnavailable", 1, <<>>, root, TRUE, rd)
                     /\ UNCHANGED <<store, wrote>>
                ELSE \* lines 43-45
                     /\ store' = Dump(store, AttachEmbeddings(entries, Encode(texts)))
                     /\ last' = Ended("ok", 0,
                                      <<[kind |-> "wrote", n |-> Len(entries)]>>,
                                      root, TRUE, rd)
                     /\ wrote' = [valid |-> TRUE, fs |-> fs, root |-> root,
                                  repo |-> repo,
                                  again |-> /\ wrote.valid
                                            /\ wrote.fs = fs
                                            /\ wrote.root = root
                                            /\ wrote.repo = repo]

Run == \E argv \in ArgVs : Main(argv)

-----------------------------------------------------------------------------
(* The environment: the corpus changes between runs *)

\* A file below the directory is written, removed or has its permissions changed
ChangeDirFile ==
    /\ fsops < MaxFsOps
    /\ \E p \in DirPaths, s \in FileStates :
          /\ s # fs.dir[p]
          /\ fs' = [fs EXCEPT !.dir[p] = s]
    /\ fsops' = fsops + 1
    /\ UNCHANGED <<call, store, last, wrote, pair>>

\* The single file is written or has its permissions changed
ChangeFile ==
    /\ fsops < MaxFsOps
    /\ \E s \in FileStates :
          /\ s.exists
          /\ s # fs.file
          /\ fs' = [fs EXCEPT !.file = s]
    /\ fsops' = fsops + 1
    /\ UNCHANGED <<call, store, last, wrote, pair>>

\* The directory is rebuilt and enumerates its files in the other order
Reorder ==
    /\ fsops < MaxFsOps
    /\ \E o \in DirOrders :
          /\ o # fs.order
          /\ fs' = [fs EXCEPT !.order = o]
    /\ fsops' = fsops + 1
    /\ UNCHANGED <<call, store, last, wrote, pair>>

-----------------------------------------------------------------------------
(* Entry ids as a function of (corpus id, path, chunk index) *)

IdRepos == {"a", "a::b", "repo"}
IdPaths == {"c", "b::c", "src/c"}
Keys == [repo : IdRepos, path : IdPaths, chunk : 0..MaxIndex]

NoPair == [pc |-> "none"]

PairInit ==
    \E a \in Keys, b \in Keys :
        pair = [pc |-> "keys", a |-> a, b |-> b, ida |-> "", idb |-> ""]

\* line 37 applied to both triples
BuildIds ==
    /\ pair.pc = "keys"
    /\ pair' = [pair EXCEPT !.pc = "built",
                            !.ida = EntryId(pair.a.repo, pair.a.path, pair.a.chunk),
                            !.idb = EntryId(pair.b.repo, pair.b.path, pair.b.chunk)]
    /\ UNCHANGED <<call, fs, store, last, wrote, fsops>>

-----------------------------------------------------------------------------
(* Specifications *)

InitFs == [dir |-> [p \in DirPaths |->
                      IF p = "a.py"
                      THEN [exists |-> TRUE, readable |-> TRUE, text |-> "short"]
                      ELSE [exists |-> TRUE, readable |-> TRUE, text |-> "empty"]],
           order |-> <<"a.py", "sub/b.md">>,
           file |-> [exists |-> TRUE, readable |-> TRUE, text |-> "short"]]

NoRun == [outcome |-> "none", exit |-> 0, stdout |-> <<>>, root |-> "",
          called |-> FALSE, read |-> NoRead, fs |-> InitFs]

NoWrite == [valid |-> FALSE, fs |-> InitFs, root |-> "", repo |-> "",
            again |-> FALSE]

IngestIdle ==
    /\ fs = InitFs
    /\ store = <<>>
    /\ last = NoRun
    /\ wrote = NoWrite
    /\ fsops = 0

\* The ingestion script run again and again on a changing corpus
Init == IngestIdle /\ call = NoCall /\ pair = NoPair
Next == Run \/ ChangeDirFile \/ ChangeFile \/ Reorder
Spec == Init /\ [][Next]_vars

\* The specifications of the two pure functions leave the ingestion state empty
IngestUnused ==
    /\ fs = <<>>
    /\ store = <<>>
    /\ last = <<>>
    /\ wrote = <<>>
    /\ fsops = 0

\* chunk_text applied to every bounded input
InitChunk == IngestUnused /\ ChunkInit /\ pair = NoPair
NextChunk == ChunkEnter \/ ChunkIterate \/ ChunkReturn
SpecChunk == InitChunk /\ [][NextChunk]_vars

\* the id builder applied to every pair of bounded triples
InitId == IngestUnused /\ call = NoCall /\ PairInit
NextId == BuildIds
SpecId == InitId /\ [][NextId]_vars

-----------------------------------------------------------------------------
(* Properties of chunk_text, checked under SpecChunk *)

Returned == call.pc = "returned"
ValidParams == 0 <= call.overlap /\ call.overlap < call.max_words
Step == call.max_words - call.overlap

RECURSIVE Flatten(_)
Flatten(lists) ==
    IF Len(lists) = 0 THEN <<>> ELSE Head(lists) \o Flatten(Tail(lists))

\* The words of chunk k that its predecessor does not already hold: a chunk
\* after the first starts with (at most) overlap words of its predecessor
OwnWords(chunks, k, overlap) ==
    LET ws == Split(chunks[k])
    IN  IF k = 1 THEN ws ELSE SubSeq(ws, Min(overlap, Len(ws)) + 1, Len(ws))

DeOverlapped(chunks, overlap) ==
    [k \in 1..Len(chunks) |-> OwnWords(chunks, k, overlap)]

\* C1: with 0 <= overlap < max_words, the chunks returned, with the words each
\* chunk shares with its predecessor removed, give back the words of the text:
\* every word once, in the original order.
C1_ChunkCoverage ==
    (Returned /\ ValidParams) =>
        Flatten(DeOverlapped(call.chunks, call.overlap)) = Split(call.text)

\* C1 witness: a call that returned three or more overlapping chunks
C1_Witness ==
    Returned /\ ValidParams /\ call.overlap > 0 /\ Len(call.chunks) >= 3

\* The window of max_words words that starts at word number start (from 0)
SpecWindow(start) ==
    Join(SubSeq(call.words, start + 1,
                Min(start + call.max_words, Len(call.words))))

\* C2: for a text of more than max_words words and 0 <= overlap < max_words,
\* the chunks are the windows at 0, step, 2*step, ..., and the last chunk is
\* the first window that reaches the last word: no chunk follows once the end
\* is covered.  "one two three four five" with max_words 2 and overlap 1 gives
\* exactly "one two", "two three", "three four", "four five".
C2_StopsWhenCovered ==
    (Returned /\ ValidParams /\ Len(call.words) > call.max_words) =>
        LET n == Len(call.words)
            m == Len(call.chunks)
        IN  /\ m >= 1
            /\ \A k \in 1..m : call.chunks[k] = SpecWindow((k - 1) * Step)
            /\ \A k \in 1..(m - 1) : (k - 1) * Step + call.max_words < n
            /\ (m - 1) * Step + call.max_words >= n
            /\ (call.text = ExampleText /\ call.max_words = 2 /\ call.overlap = 1)
                  => call.chunks = << <<"o","n","e"," ","t","w","o">>,
                                      <<"t","w","o"," ","t","h","r","e","e">>,
                                      <<"t","h","r","e","e"," ","f","o","u","r">>,
                                      <<"f","o","u","r"," ","f","i","v","e">> >>

\* C3: a call with overlap >= max_words never returns a chunk list and never
\* runs on producing chunks: it ends in a configuration error.  (A loop with a
\* positive step appends at most one chunk per word.)
C3_MisconfigurationFails ==
    (call.overlap >= call.max_words) =>
        /\ call.pc # "returned"
        /\ Len(call.chunks) <= Len(call.words)

\* C4: a text of at most max_words words (the empty text included) comes back
\* as exactly one chunk, the text itself, unchanged.
C4_SingleChunk ==
    (Returned /\ Len(Split(call.text)) <= call.max_words) =>
        call.chunks = <<call.text>>

\* C4 witness: a short text that joining its words would not reproduce
C4_Witness ==
    /\ Returned
    /\ Len(Split(call.text)) <= call.max_words
    /\ Len(Split(call.text)) >= 1
    /\ call.text # Join(Split(call.text))

-----------------------------------------------------------------------------
(* Property of the entry ids, checked under SpecId *)

\* C5: two entries have the same id only if they have the same corpus id, the
\* same path and the same chunk index, also when a corpus id or a path itself
\* contains "::".
C5_IdsUnique ==
    (pair.pc = "built" /\ pair.ida = pair.idb) => pair.a = pair.b

-----------------------------------------------------------------------------
(* Properties of the ingestion, checked under Spec *)

Ids(entries) == [k \in 1..Len(entries) |-> entries[k].id]

\* The files the walk of the last run found below the directory root
Listed(f) == {p \in DirPaths : f.dir[p].exists}

\* The files whose content the last run replaced by the empty text
Unreadable(f) == {p \in Listed(f) : ~f.dir[p].readable}

\* C6: a run on the same filesystem state, with the same corpus id and the same
\* output file as the run before it, writes entries with the same ids, and the
\* store holds as many entries as before: none is duplicated.
C6_ReingestIdempotent ==
    [][wrote'.valid /\ wrote'.again =>
          /\ Ids(store') = Ids(store)
          /\ Len(store') = Len(store)
          /\ Cardinality({store'[k].id : k \in DOMAIN store'}) = Len(store')]_vars

\* C6 witness: the corpus with a two-chunk file has been ingested twice in a row
C6_Witness == wrote.valid /\ wrote.again /\ Len(store) >= 3

\* C7: read_files on a directory yields one pair per regular file below it, the
\* content of a readable file and "" for one whose read fails; on a single file
\* it yields exactly one pair, whose path is the file's own name.
C7_ReadTolerant ==
    last.called =>
        /\ ~last.read.raised
        /\ IF IsFile(last.fs, last.root)
           THEN /\ Len(last.read.items) = 1
                /\ last.read.items[1].path = Name(last.root)
           ELSE /\ Len(last.read.items) = Cardinality(Listed(last.fs))
                /\ \A p \in Listed(last.fs) :
                      \E k \in DOMAIN last.read.items :
                         /\ last.read.items[k].path = p
                         /\ last.read.items[k].text =
                               IF last.fs.dir[p].readable
                               THEN Content(last.fs.dir[p].text) ELSE <<>>

\* C8: a run in which the embedding fails ends with an error, prints no count
\* and leaves the store as it was; and every entry ever in the store carries
\* the embedding of its own text.
C8_EmbedFailureAborts ==
    [][/\ last'.outcome = "ModelUnavailable" =>
             (store' = store /\ last'.exit # 0 /\ last'.stdout = <<>>)
       /\ \A k \in DOMAIN store' :
             store'[k].embedding = Embed(store'[k].text)]_vars

\* C8 witness: the embedding call failed after the corpus was read and chunked,
\* and the entries of an earlier run are still in the store
C8_Witness ==
    /\ last.outcome = "ModelUnavailable"
    /\ last.called
    /\ Len(last.read.items) >= 1
    /\ Len(store) >= 3

\* C9: a run that ends well reports the number of entries written, which is the
\* number of entries in the store, and reports every file it skipped because
\* the file could not be read.
C9_ReportsSkipped ==
    last.outcome = "ok" =>
        /\ \E j \in DOMAIN last.stdout :
              last.stdout[j].kind = "wrote" /\ last.stdout[j].n = Len(store)
        /\ ~IsFile(last.fs, last.root) =>
              \A p \in Unreadable(last.fs) :
                 \E j \in DOMAIN last.stdout :
                    last.stdout[j].kind = "skipped" /\ last.stdout[j].path = p

\* C10: an entry, once written, stays in the store unchanged (the program has
\* no operation that removes a corpus): ingesting another corpus into the same
\* store neither deletes nor alters it.
C10_EntriesPersist ==
    [][\A k \in DOMAIN store : \E j \in DOMAIN store' : store'[j] = store[k]]_vars

====
